---- MODULE Spec2Model ----
(***************************************************************************)
(* The interactive discrete-event kernel of src/src/main.rs driving        *)
(* IncMachines (src/src/inc_machine.rs) over shared-buffer Channels        *)
(* (src/src/util.rs).                                                      *)
(*                                                                         *)
(* Machine ids are 0-based as in the source (index into `machines`).       *)
(* A buffer (a leaked RefCell<Vec<u8>>) is a cell of the heap `bufs`; a    *)
(* Channel value holds the ids of its inbox and outbox cells, so clones of *)
(* a Channel alias the same cells exactly as the &'static RefCell does.    *)
(*                                                                         *)
(* main.rs is built on util.rs (Channel::recv drains the inbox into a      *)
(* Vec<u8>), while inc_machine.rs is written against the names of          *)
(* machine.rs (sender_name = us, receiver_name = them, recv giving an      *)
(* Option).  poll only looks at msg.first(), so "None" and an empty Vec    *)
(* are the same case: nothing received, no change.                         *)
(*                                                                         *)
(* poll_log, conn_log, sent_log and cmd_log are history variables: they    *)
(* record what the calls saw and did and are read by the properties only.  *)
(*                                                                         *)
(* Two components are also driven on their own, each by a specification    *)
(* of its own: the Channel of util.rs (SpecChannel: any sequence of send,  *)
(* recv and the Engine's move, recorded in recv_log and move_log) and the   *)
(* Wire of src/src/wire.rs (SpecWire: any polls a kernel of simulator.rs   *)
(* may make, recorded in wire_log).                                        *)
(*                                                                         *)
(* So are the kernel of src/src/simulator.rs (SpecSim: one call of         *)
(* run_sim_until on nodes that may send anything and report any poll       *)
(* time, recorded in sim_log) and the Scheduler of src/src/scheduled.rs    *)
(* (SpecSched: any sequence of add_event and poll, recorded in sched_log). *)
(*                                                                         *)
(* SpecOverflow follows the interactive kernel up to the last value of     *)
(* Time, where the sums of add_connection and poll overflow;               *)
(* SpecUnregistered lets connect name an index that is not registered.     *)
(***************************************************************************)
EXTENDS Integers, Sequences, FiniteSets, TLC

\* ---------------------------------------------------------------- bounds
\* the interactive kernel
MaxMachines == 3
MaxChannels == 3
MaxTime == 3
MaxSecs == 1
MaxBounceTime == 33000
MaxFairChannels == 2
\* Time is u64 (util.rs); its range of 2^64 values is scaled to TimeRange
\* values, 0..TimeRange - 1.  As with 2^64, TimeRange - 1 is a multiple of 255.
TimeRange == 65536
\* a Channel driven directly: bytes sent per direction, bytes per send,
\* calls of recv
MaxSent == 2
MaxData == 2
MaxRecv == 3
\* a Wire driven directly: the highest delay and poll time, the messages
\* handed over in all, the polls made
MaxDelay == 1
MaxWireTime == 2
MaxHanded == 3
MaxWirePolls == 3
\* run_sim_until driven directly: the highest poll time and end_time, the
\* iterations that poll a node, the messages the nodes send in all
MaxSimTime == 2
MaxSimPolls == 3
MaxSimMsgs == 2
\* a Scheduler driven directly: the highest event and poll time, the events
\* added, the polls made
MaxSchedTime == 3
MaxEvents == 3
MaxSchedPolls == 2

\* ------------------------------------------------------------- constants
\* u8::MAX, the value num.saturating_add(1) saturates at
U8Max == 255

VARIABLES
    events,      \* BTreeSet<(Time, Index)>
    last_time,   \* the clock
    machines,    \* Vec<Box<dyn Machine>>: id -> IncMachine.connections
    channels,    \* Vec<(Channel, Channel)>
    bufs,        \* heap of leaked buffers: cell id -> Vec<u8>
    pc,          \* "cmd": reading a command; "realtime": inside the realtime loop
    virt_end,    \* the realtime loop's virt_end (0 outside the loop)
    aborted,     \* the process panicked
    poll_log,    \* history: every call of poll, in order, with what it found and left
    conn_log,    \* history: every connect, in order, with the clock and what it left
    sent_log,    \* history: every byte sent, in order
    cmd_log,     \* history: what the last command found, if it was a step on an
                 \* empty queue, a realtime run, an add or a connect of an
                 \* unregistered index (else empty)
    recv_log,    \* history: every Channel::recv made by a driver of the Channel
                 \* API, in order, with what the inbox held before and after
    move_log,    \* history: cell id -> how many of the bytes sent into the cell
                 \* a move_messages has transferred so far
    wire,        \* the Wire: end1, end2, delay and the outgoing queue
    wire_log,    \* history: every Wire::poll, in order, with its time, what came
                 \* in, what was returned and the queue it left
    sim,         \* a call of run_sim_until: where it is, its end_time, its locals
                 \* time and mailboxes, and each node's poll_at()
    sim_log,     \* history: every iteration of the loop of run_sim_until that
                 \* chose a node, in order, with what it found
    sched,       \* a Scheduler: the times of the events in its BinaryHeap<Event>,
                 \* in the order they were added
    sched_log    \* history: every Scheduler::poll, in order, with the heap
                 \* before and after and the events run

vars == <<events, last_time, machines, channels, bufs, pc, virt_end, aborted, poll_log, conn_log, sent_log, cmd_log,
          recv_log, move_log, wire, wire_log, sim, sim_log, sched, sched_log>>

\* what a driver of the Channel API alone, and of a Wire alone, adds to
\* the state
chan_vars == <<recv_log, move_log>>

wire_vars == <<wire, wire_log>>

\* what a driver of run_sim_until, and of a Scheduler, adds to the state
sim_vars == <<sim, sim_log>>

sched_vars == <<sched, sched_log>>

\* the state of the interactive kernel that a driver of the Channel API
\* or of a Wire leaves alone
kernel_vars == <<events, last_time, machines, pc, virt_end, poll_log, conn_log, cmd_log>>

\* ------------------------------------------------------------ IncMachine
Waiting == [tag |-> "Waiting", when |-> 0, num |-> 0]

WillSend(when, num) == [tag |-> "WillSend", when |-> when, num |-> num]

\* IncMachine::start: no connections
Start == << >>

\* mutant: the endpoint made first sends first, whatever the two ids are
InitialCiByArgument(chan, time) ==
    IF chan.inbox < chan.outbox THEN WillSend(time + 1, 1) ELSE Waiting

\* mutant: both endpoints are to send first
InitialCiBoth(chan, time) == WillSend(time + 1, 1)

\* mutant: the first send is scheduled at 1 whatever the clock is
InitialCiNoClock(chan, time) ==
    IF chan.us < chan.them THEN WillSend(1, 1) ELSE Waiting

\* the ConnectionInfo a new connection starts in
InitialCi(chan, time) ==
    IF chan.us < chan.them THEN WillSend(time + 1, 1) ELSE Waiting

\* IncMachine::add_connection
AddConnection(conns, chan, time) ==
    Append(conns, [chan |-> chan, ci |-> InitialCi(chan, time)])

\* mutant: u8::wrapping_add(1)
WrappingAdd1(n) == (n + 1) % (U8Max + 1)

\* u8::saturating_add(1)
SaturatingAdd1(n) == IF n + 1 > U8Max THEN U8Max ELSE n + 1

\* mutant: the send waits until the clock has passed `when`
FiresLate(ci, time) == ci.tag = "WillSend" /\ time > ci.when

\* whether a poll at `time` sends on a connection in state ci
Fires(ci, time) == ci.tag = "WillSend" /\ time >= ci.when

\* mutant: the byte received is sent back as it is
NextCiEcho(ci, msg, time) ==
    IF ci.tag = "WillSend" THEN Waiting
    ELSE IF msg # << >>
         THEN WillSend(time + msg[1], msg[1])
         ELSE ci

\* mutant: the reply is always one tick after the receipt
NextCiNextTick(ci, msg, time) ==
    IF ci.tag = "WillSend" THEN Waiting
    ELSE IF msg # << >>
         THEN WillSend(time + 1, SaturatingAdd1(msg[1]))
         ELSE ci

\* mutant: the wake time is the increment alone, not time + increment
NextCiNoClock(ci, msg, time) ==
    IF ci.tag = "WillSend" THEN Waiting
    ELSE IF msg # << >>
         THEN WillSend(SaturatingAdd1(msg[1]), SaturatingAdd1(msg[1]))
         ELSE ci

\* the match of IncMachine::poll: the connection's next state, msg being
\* what chan.recv() returned (the drained inbox; empty = nothing received)
NextCi(ci, msg, time) ==
    IF ci.tag = "WillSend" THEN Waiting
    ELSE IF msg # << >>
         THEN WillSend(time + SaturatingAdd1(msg[1]), SaturatingAdd1(msg[1]))
         ELSE ci

\* mutant: the bytes are returned and stay in the inbox
RecvPeek(heap, chan) ==
    [data |-> heap[chan.inbox], bufs |-> heap]

\* Channel::recv: take_all(inbox); the bytes returned and the heap left
Recv(heap, chan) ==
    [data |-> heap[chan.inbox], bufs |-> [heap EXCEPT ![chan.inbox] = << >>]]

\* Channel::send: outbox.extend_from_slice(data)
Send(heap, chan, data) ==
    [heap EXCEPT ![chan.outbox] = @ \o data]

RECURSIVE PollConns(_, _, _, _)
\* IncMachine::poll, the loop from connection i on.
\* Result: the connections, the heap and the bytes sent (in order).
PollConns(conns, heap, time, i) ==
    IF i > Len(conns) THEN [conns |-> conns, bufs |-> heap, sent |-> << >>]
    ELSE LET chan == conns[i].chan
             ci   == conns[i].ci
             msg  == Recv(heap, chan).data
             h1   == Recv(heap, chan).bufs
             h2   == IF Fires(ci, time)
                     THEN Send(h1, chan, <<ci.num>>)
                     ELSE h1
             out  == IF Fires(ci, time)
                     THEN <<[time |-> time, from |-> chan.us, to |-> chan.them,
                             cell |-> chan.outbox, num |-> ci.num]>>
                     ELSE << >>
             rest == PollConns([conns EXCEPT ![i].ci = NextCi(ci, msg, time)],
                               h2, time, i + 1)
         IN [rest EXCEPT !.sent = out \o @]

Poll(conns, heap, time) == PollConns(conns, heap, time, 1)

\* IncMachine::poll_at as a set: {} is None, {t} is Some(t)
PollAt(conns) ==
    LET ws == {conns[i].ci.when : i \in {j \in 1..Len(conns) : conns[j].ci.tag = "WillSend"}}
    IN IF ws = {} THEN {} ELSE {CHOOSE t \in ws : \A u \in ws : t <= u}

\* --------------------------------------------------------------- Channel
\* Channel::new: end1 and end2 are two fresh cells; the first endpoint's
\* inbox is end1 and its outbox is end2, the second's the other way round
ChannelNew(idx1, idx2, end1, end2) ==
    << [inbox |-> end1, outbox |-> end2, us |-> idx1, them |-> idx2],
       [inbox |-> end2, outbox |-> end1, us |-> idx2, them |-> idx1] >>

\* ---------------------------------------------------------------- Engine
\* mutant: the bytes are moved but the move is not reported
MoveMessagesSilent(heap, send, recv) ==
    LET b  == heap[send.outbox]
        h1 == [heap EXCEPT ![send.outbox] = << >>]
    IN [bufs |-> [h1 EXCEPT ![recv.inbox] = @ \o b], moved |-> FALSE]

\* move_messages: take_all(send.outbox), and extend recv.inbox when non-empty
MoveMessages(heap, send, recv) ==
    LET b  == heap[send.outbox]
        h1 == [heap EXCEPT ![send.outbox] = << >>]
    IN IF b = << >>
       THEN [bufs |-> h1, moved |-> FALSE]
       ELSE [bufs |-> [h1 EXCEPT ![recv.inbox] = @ \o b], moved |-> TRUE]

\* mutant: the receiver is woken one tick later
WokenLate(time, chan) == <<time + 1, chan.them>>

\* the entry events.insert((time, chan.other_index())) adds
Woken(time, chan) == <<time, chan.them>>

RECURSIVE MoveAll(_, _, _, _)
\* the loop over channels in time_step, from pair k on
MoveAll(heap, evs, time, k) ==
    IF k > Len(channels) THEN [bufs |-> heap, events |-> evs]
    ELSE LET chan1 == channels[k][1]
             chan2 == channels[k][2]
             m1 == MoveMessages(heap, chan1, chan2)
             e1 == IF m1.moved THEN evs \cup {Woken(time, chan1)} ELSE evs
             m2 == MoveMessages(m1.bufs, chan2, chan1)
             e2 == IF m2.moved THEN e1 \cup {Woken(time, chan2)} ELSE e1
         IN MoveAll(m2.bufs, e2, time, k + 1)

\* the order of BTreeSet<(Time, Index)>
TupleLeq(e, f) == e[1] < f[1] \/ (e[1] = f[1] /\ e[2] <= f[2])

\* mutant: the set is ordered by index before time
FirstByIndex(evs) ==
    CHOOSE e \in evs : \A f \in evs : e[2] < f[2] \/ (e[2] = f[2] /\ e[1] <= f[1])

\* BTreeSet::first / pop_first
First(evs) == CHOOSE e \in evs : \A f \in evs : TupleLeq(e, f)

NumMachines == Cardinality(DOMAIN machines)

Ids == DOMAIN machines

\* mutant: a machine's poll_at() is not put into the queue
InsertNothing(evs, conns, index) == evs

\* `if let Some(t) = machine.poll_at() { events.insert((t, index)) }`
InsertPollAt(evs, conns, index) == evs \cup {<<t, index>> : t \in PollAt(conns)}

\* a computed time that u64 cannot hold
Exceeds(t) == t >= TimeRange

\* IncMachine::poll(time) panics: for some connection that received a byte,
\* time.checked_add(new_num as u64) is None and expect("too much time
\* passed") fires.  conns is what Poll computes with unbounded sums.
Panicked(conns) ==
    \E i \in 1..Len(conns) : conns[i].ci.tag = "WillSend" /\ Exceeds(conns[i].ci.when)

\* add_connection(chan, time) computes time + 1 with the plain `+` of u64
\* and the sum overflows
AddOverflows(chan, time) ==
    InitialCi(chan, time).tag = "WillSend" /\ Exceeds(InitialCi(chan, time).when)

\* what the plain `+` stores when overflow checks are off: the sum modulo
\* 2^64
WrapAll(conns) ==
    [i \in 1..Len(conns) |->
        IF conns[i].ci.tag = "WillSend"
        THEN [conns[i] EXCEPT !.ci.when = @ % TimeRange]
        ELSE conns[i]]

\* time_step, the queue being non-empty and the poll not panicking
TimeStep ==
    \E e \in {First(events)} :
    \E p \in {Poll(machines[e[2]], bufs, e[1])} :
    \E mv \in {MoveAll(p.bufs, events \ {e}, e[1], 1)} :
    LET time  == e[1]
        index == e[2]
    IN /\ last_time' = time
       /\ machines' = [machines EXCEPT ![index] = p.conns]
       /\ ~Panicked(p.conns)
       /\ bufs' = mv.bufs
       /\ events' = InsertPollAt(mv.events, p.conns, index)
       /\ poll_log' = Append(poll_log,
              [index |-> index, time |-> time, queue |-> events, bufs |-> bufs,
               sent |-> Len(sent_log), before |-> machines[index], after |-> p.conns])
       /\ sent_log' = sent_log \o p.sent
       /\ UNCHANGED <<channels, aborted, conn_log>>

\* what an add found
AddRecord(index) ==
    [cmd |-> "add", index |-> index, clock |-> last_time, queue |-> events,
     machines |-> machines, channels |-> channels, bufs |-> bufs,
     polls |-> Len(poll_log)]

\* mutant: the new machine takes the place of machine 0
AddAtZero ==
    /\ pc = "cmd" /\ ~aborted
    /\ NumMachines < MaxMachines
    /\ machines' = [i \in Ids \cup {0} |-> IF i = 0 THEN Start ELSE machines[i]]
    /\ cmd_log' = <<AddRecord(0)>>
    /\ UNCHANGED <<events, last_time, channels, bufs, pc, virt_end, aborted, poll_log, conn_log, sent_log>>
    /\ UNCHANGED <<chan_vars, wire_vars, sim_vars, sched_vars>>

\* Command::Add
Add ==
    /\ pc = "cmd" /\ ~aborted
    /\ NumMachines < MaxMachines
    /\ LET index == NumMachines
           machine == Start
       IN /\ machines' = [i \in 0..index |-> IF i < index THEN machines[i] ELSE machine]
          /\ events' = InsertPollAt(events, machine, index)
          /\ cmd_log' = <<AddRecord(index)>>
    /\ UNCHANGED <<last_time, channels, bufs, pc, virt_end, aborted, poll_log, conn_log, sent_log>>
    /\ UNCHANGED <<chan_vars, wire_vars, sim_vars, sched_vars>>

\* Command::Connect(name1, name2), both registered, last_time + 1 being a
\* Time
Connect(name1, name2) ==
    /\ pc = "cmd" /\ ~aborted
    /\ Len(channels) < MaxChannels
    /\ name1 \in Ids /\ name2 \in Ids
    /\ name1 # name2 => ~Exceeds(last_time + 1)
    /\ LET end1 == Len(bufs) + 1
           end2 == Len(bufs) + 2
           pair == ChannelNew(name1, name2, end1, end2)
           m1 == [machines EXCEPT ![name1] = AddConnection(@, pair[1], last_time)]
           m2 == [m1 EXCEPT ![name2] = AddConnection(@, pair[2], last_time)]
           evs == InsertPollAt(InsertPollAt(events, m2[name1], name1), m2[name2], name2)
       IN /\ bufs' = bufs \o << << >>, << >> >>
          /\ machines' = m2
          /\ channels' = Append(channels, pair)
          /\ events' = evs
          /\ conn_log' = Append(conn_log,
                [time |-> last_time, polls |-> Len(poll_log),
                 queue |-> evs,
                 machines |-> [i \in {name1, name2} |-> m2[i]]])
    /\ cmd_log' = << >>
    /\ UNCHANGED <<last_time, pc, virt_end, aborted, poll_log, sent_log>>
    /\ UNCHANGED <<chan_vars, wire_vars, sim_vars, sched_vars>>

\* mutant: an unregistered index is not noticed: the pair is pushed and the
\* command loop goes on
ConnectUnregisteredPushing(name1, name2) ==
    /\ pc = "cmd" /\ ~aborted
    /\ Len(channels) < MaxChannels
    /\ ~(name1 \in Ids /\ name2 \in Ids)
    /\ channels' = Append(channels, ChannelNew(name1, name2, Len(bufs) + 1, Len(bufs) + 2))
    /\ bufs' = bufs \o << << >>, << >> >>
    /\ cmd_log' = <<[cmd |-> "connect", name1 |-> name1, name2 |-> name2,
                     channels |-> channels, queue |-> events]>>
    /\ UNCHANGED <<events, last_time, machines, aborted, pc, virt_end, poll_log, conn_log, sent_log>>
    /\ UNCHANGED <<chan_vars, wire_vars, sim_vars, sched_vars>>

\* Command::Connect with an index that is not registered: machines[name]
\* panics (index out of bounds); machines[name1] is indexed first
ConnectUnregistered(name1, name2) ==
    /\ pc = "cmd" /\ ~aborted
    /\ Len(channels) < MaxChannels
    /\ ~(name1 \in Ids /\ name2 \in Ids)
    /\ LET pair == ChannelNew(name1, name2, Len(bufs) + 1, Len(bufs) + 2)
       IN /\ bufs' = bufs \o << << >>, << >> >>
          /\ machines' = IF name1 \in Ids
                         THEN [machines EXCEPT ![name1] = AddConnection(@, pair[1], last_time)]
                         ELSE machines
    /\ aborted' = TRUE
    /\ cmd_log' = <<[cmd |-> "connect", name1 |-> name1, name2 |-> name2,
                     channels |-> channels, queue |-> events]>>
    /\ UNCHANGED <<events, last_time, channels, pc, virt_end, poll_log, conn_log, sent_log>>
    /\ UNCHANGED <<chan_vars, wire_vars, sim_vars, sched_vars>>

\* Command::Connect(name1, name2), both registered and different, when
\* last_time + 1 overflows in add_connection of the lower id.  What the
\* plain `+` does depends on the build: with overflow checks (checks, the
\* default of a debug build) it panics, without them (a release build) it
\* wraps and connect goes on.
ConnectOverflow(name1, name2, checks) ==
    /\ pc = "cmd" /\ ~aborted
    /\ Len(channels) < MaxChannels
    /\ name1 \in Ids /\ name2 \in Ids
    /\ name1 # name2 /\ Exceeds(last_time + 1)
    /\ LET end1 == Len(bufs) + 1
           end2 == Len(bufs) + 2
           pair == ChannelNew(name1, name2, end1, end2)
           m1 == [machines EXCEPT ![name1] = WrapAll(AddConnection(@, pair[1], last_time))]
           m2 == [m1 EXCEPT ![name2] = WrapAll(AddConnection(@, pair[2], last_time))]
           evs == InsertPollAt(InsertPollAt(events, m2[name1], name1), m2[name2], name2)
       IN /\ bufs' = bufs \o << << >>, << >> >>
          /\ IF checks
             THEN /\ aborted' = TRUE
                  /\ machines' = IF AddOverflows(pair[1], last_time) THEN machines ELSE m1
                  /\ UNCHANGED <<channels, events, conn_log>>
             ELSE /\ machines' = m2
                  /\ channels' = Append(channels, pair)
                  /\ events' = evs
                  /\ conn_log' = Append(conn_log,
                        [time |-> last_time, polls |-> Len(poll_log),
                         queue |-> evs,
                         machines |-> [i \in {name1, name2} |-> m2[i]]])
                  /\ UNCHANGED aborted
    /\ cmd_log' = << >>
    /\ UNCHANGED <<last_time, pc, virt_end, poll_log, sent_log>>
    /\ UNCHANGED <<chan_vars, wire_vars, sim_vars, sched_vars>>

\* Command::Step when the poll of the first event's machine panics in
\* checked_add(..).expect(..): the event was popped and the clock set
\* (main.rs:125-126) before the process dies
StepPanic ==
    /\ pc = "cmd" /\ ~aborted
    /\ events # {}
    /\ \E e \in {First(events)} :
          /\ Panicked(Poll(machines[e[2]], bufs, e[1]).conns)
          /\ events' = events \ {e}
          /\ last_time' = e[1]
    /\ aborted' = TRUE
    /\ cmd_log' = << >>
    /\ UNCHANGED <<machines, channels, bufs, pc, virt_end, poll_log, conn_log, sent_log>>
    /\ UNCHANGED <<chan_vars, wire_vars, sim_vars, sched_vars>>

\* mutant: a step on an empty queue lets one second pass
EmptyStepTicking ==
    /\ last_time' = last_time + 1
    /\ UNCHANGED <<events, machines, channels, bufs, aborted, poll_log, conn_log, sent_log>>

\* Command::Step, events.is_empty(): "Event queue is empty!" is printed
EmptyStep ==
    UNCHANGED <<events, last_time, machines, channels, bufs, aborted, poll_log, conn_log, sent_log>>

\* Command::Step within the explored horizon
StepWithin(horizon) ==
    /\ pc = "cmd" /\ ~aborted
    /\ IF events = {}
       THEN /\ EmptyStep
            /\ cmd_log' = <<[cmd |-> "step", clock |-> last_time, queue |-> events,
                             machines |-> machines, bufs |-> bufs,
                             polls |-> Len(poll_log), sent |-> Len(sent_log)]>>
       ELSE /\ First(events)[1] <= horizon
            /\ TimeStep
            /\ cmd_log' = << >>
    /\ UNCHANGED <<pc, virt_end>>
    /\ UNCHANGED <<chan_vars, wire_vars, sim_vars, sched_vars>>

Step == StepWithin(MaxTime)

\* Command::Realtime(secs): virt_end is computed and the loop entered
Realtime(secs) ==
    /\ pc = "cmd" /\ ~aborted
    /\ last_time + secs <= MaxTime
    /\ virt_end' = last_time + secs
    /\ pc' = "realtime"
    /\ cmd_log' = <<[cmd |-> "realtime", clock |-> last_time, secs |-> secs,
                     polls |-> Len(poll_log), done |-> FALSE]>>
    /\ UNCHANGED <<events, last_time, machines, channels, bufs, aborted, poll_log, conn_log, sent_log>>
    /\ UNCHANGED <<chan_vars, wire_vars, sim_vars, sched_vars>>

\* mutant: the loop goes on until the next event is two seconds past virt_end
WindowOverLate(evs, end) ==
    IF evs = {} THEN TRUE ELSE First(evs)[1] > end + 1

\* mutant: the loop does not break when the queue is empty
WindowOverNonEmpty(evs, end) ==
    IF evs = {} THEN FALSE ELSE First(evs)[1] > end

\* the realtime loop's two breaks: no event is left, or the next one is
\* later than virt_end
WindowOver(evs, end) ==
    IF evs = {} THEN TRUE ELSE First(evs)[1] > end

\* one iteration of the realtime loop: sleep, then time_step
RealtimeStep ==
    /\ pc = "realtime" /\ ~aborted
    /\ events # {} /\ ~WindowOver(events, virt_end)
    /\ TimeStep
    /\ UNCHANGED <<pc, virt_end, cmd_log>>
    /\ UNCHANGED <<chan_vars, wire_vars, sim_vars, sched_vars>>

\* the realtime loop is left
RealtimeBreak ==
    /\ pc = "realtime" /\ ~aborted
    /\ WindowOver(events, virt_end)
    /\ pc' = "cmd"
    /\ virt_end' = 0
    /\ cmd_log' = <<[cmd_log[1] EXCEPT !.done = TRUE]>>
    /\ UNCHANGED <<events, last_time, machines, channels, bufs, aborted, poll_log, conn_log, sent_log>>
    /\ UNCHANGED <<chan_vars, wire_vars, sim_vars, sched_vars>>

\* run_sim_until has not been called
NoSim == [at |-> "idle", end_time |-> 0, time |-> 0, mailboxes |-> << >>, poll_at |-> << >>]

\* BinaryHeap::new(): no event
NoEvents == << >>

\* no Wire has been made
NoWire == [end1 |-> 0, end2 |-> 0, delay |-> 0, outgoing |-> << >>]

\* main, before the command loop
Init ==
    /\ events = {}
    /\ last_time = 0
    /\ machines = [i \in {} |-> Start]
    /\ channels = << >>
    /\ bufs = << >>
    /\ pc = "cmd"
    /\ virt_end = 0
    /\ aborted = FALSE
    /\ poll_log = << >>
    /\ conn_log = << >>
    /\ sent_log = << >>
    /\ cmd_log = << >>
    /\ recv_log = << >>
    /\ move_log = << >>
    /\ wire = NoWire
    /\ wire_log = << >>
    /\ sim = NoSim
    /\ sim_log = << >>
    /\ sched = NoEvents
    /\ sched_log = << >>

Next ==
    \/ Add
    \/ \E name1, name2 \in 0..(MaxMachines - 1) : Connect(name1, name2)
    \/ Step
    \/ \E secs \in 0..MaxSecs : Realtime(secs)
    \/ RealtimeStep
    \/ RealtimeBreak

Spec == Init /\ [][Next]_vars

\* Runs checked for termination: any commands, with up to MaxFairChannels
\* connections.  The realtime loop is sequential code: once entered, its
\* next iteration or its break is eventually executed.
NextFair ==
    \/ Add
    \/ /\ Len(channels) < MaxFairChannels
       /\ \E name1, name2 \in 0..(MaxMachines - 1) : Connect(name1, name2)
    \/ Step
    \/ \E secs \in 0..MaxSecs : Realtime(secs)
    \/ RealtimeStep
    \/ RealtimeBreak

SpecFair == Init /\ [][NextFair]_vars /\ WF_vars(RealtimeStep) /\ WF_vars(RealtimeBreak)

\* Runs in which connect may also name an index that is not registered
NextUnregistered ==
    \/ NextFair
    \/ \E name1, name2 \in 0..(MaxMachines - 1) : ConnectUnregistered(name1, name2)

SpecUnregistered == Init /\ [][NextUnregistered]_vars

\* The bounce scenario: two machines are added, joined by one connection
\* while the clock is 0, and from then on the only command is step.
NextBounce ==
    \/ NumMachines < 2 /\ Add
    \/ /\ NumMachines = 2 /\ channels = << >>
       /\ \E name1, name2 \in Ids : name1 # name2 /\ Connect(name1, name2)
    \/ StepWithin(MaxBounceTime)

SpecBounce == Init /\ [][NextBounce]_vars

\* Long runs: two machines, joined while the clock is 0 by up to two
\* connections (either argument order, self-connections included), then
\* stepped as far as the bytes take to saturate.
NextLong ==
    \/ NumMachines < 2 /\ Add
    \/ /\ last_time = 0 /\ Len(channels) < 2
       /\ \E name1, name2 \in Ids : Connect(name1, name2)
    \/ StepWithin(MaxBounceTime)

SpecLong == Init /\ [][NextLong]_vars

\* The bounce up to the end of Time: two machines joined while the clock is
\* 0 and stepped as long as there are events; in the last seconds of the
\* range further connections are made.
NextOverflow ==
    \/ NumMachines < 2 /\ Add
    \/ /\ NumMachines = 2 /\ channels = << >>
       /\ Connect(0, 1)
    \/ StepWithin(TimeRange - 1)
    \/ StepPanic
    \/ /\ channels # << >> /\ last_time + U8Max >= TimeRange - 1
       /\ \E name1, name2 \in Ids :
             \/ Connect(name1, name2)
             \/ \E checks \in BOOLEAN : ConnectOverflow(name1, name2, checks)

SpecOverflow == Init /\ [][NextOverflow]_vars

\* ------------------------------------------------- the Channel API alone
\* One Channel::new(0, 1) and any sequence of send, recv and the Engine's
\* move on its two ends.  The bytes a side sends are numbered 1, 2, ... in
\* the order it sends them.
End(side) == channels[1][side]

Peer(side) == channels[1][3 - side]

\* the bytes the machine `from` has sent, in order
BytesFrom(from) ==
    LET l == SelectSeq(sent_log, LAMBDA s : s.from = from)
    IN [i \in 1..Len(l) |-> l[i].num]

\* end.send(data), data being the next n bytes of that side
ChanSend(side, n) ==
    LET chan == End(side)
        k    == Len(BytesFrom(chan.us))
        data == [i \in 1..n |-> k + i]
    IN /\ ~aborted /\ channels # << >>
       /\ k + n <= MaxSent
       /\ bufs' = Send(bufs, chan, data)
       /\ sent_log' = sent_log \o [i \in 1..n |->
              [time |-> 0, from |-> chan.us, to |-> chan.them,
               cell |-> chan.outbox, num |-> data[i]]]
       /\ UNCHANGED <<channels, aborted, recv_log, move_log, kernel_vars, wire_vars, sim_vars, sched_vars>>

\* end.recv()
ChanRecv(side) ==
    LET chan == End(side)
        r    == Recv(bufs, chan)
    IN /\ ~aborted /\ channels # << >>
       /\ Len(recv_log) < MaxRecv
       /\ bufs' = r.bufs
       /\ recv_log' = Append(recv_log,
              [by |-> chan.us, from |-> chan.them, had |-> bufs[chan.inbox],
               data |-> r.data, left |-> r.bufs[chan.inbox]])
       /\ UNCHANGED <<channels, aborted, sent_log, move_log, kernel_vars, wire_vars, sim_vars, sched_vars>>

\* the Engine's move step for the pair: the body of the loop of time_step
ChanMove ==
    LET m1 == MoveMessages(bufs, End(1), End(2))
        m2 == MoveMessages(m1.bufs, End(2), End(1))
    IN /\ ~aborted /\ channels # << >>
       /\ bufs' = m2.bufs
       /\ move_log' = << IF m1.moved THEN Len(BytesFrom(End(1).us)) ELSE move_log[1],
                         IF m2.moved THEN Len(BytesFrom(End(2).us)) ELSE move_log[2] >>
       /\ UNCHANGED <<channels, aborted, sent_log, recv_log, kernel_vars, wire_vars, sim_vars, sched_vars>>

\* the state after Channel::new(0, 1)
InitChannel ==
    /\ channels = <<ChannelNew(0, 1, 1, 2)>>
    /\ bufs = << << >>, << >> >>
    /\ sent_log = << >>
    /\ recv_log = << >>
    /\ move_log = <<0, 0>>
    /\ aborted = FALSE
    /\ events = {}
    /\ last_time = 0
    /\ machines = [i \in {} |-> Start]
    /\ pc = "cmd"
    /\ virt_end = 0
    /\ poll_log = << >>
    /\ conn_log = << >>
    /\ cmd_log = << >>
    /\ wire = NoWire
    /\ wire_log = << >>
    /\ sim = NoSim
    /\ sim_log = << >>
    /\ sched = NoEvents
    /\ sched_log = << >>

NextChannel ==
    \/ \E side \in 1..2 : \E n \in 1..MaxData : ChanSend(side, n)
    \/ \E side \in 1..2 : ChanRecv(side)
    \/ ChanMove

SpecChannel == InitChannel /\ [][NextChannel]_vars

\* ---------------------------------------------------------- a Wire alone
\* One Wire::new(end1, end2, delay), polled as a kernel may poll a Node:
\* at times that never decrease, with any list of (sender, message) pairs.
\* The messages are numbered 1, 2, ... in the order they are handed over.

\* the nodes of the simulation the Wire is part of that may send to it
Nodes == {0, 1, 2}

\* the nodes a Wire is made between (in either order, or one node twice);
\* node 2 is never an end
WireEnds == {0, 1}

\* Wire::new
WireNew(end1, end2, delay) ==
    [end1 |-> end1, end2 |-> end2, delay |-> delay, outgoing |-> << >>]

\* the sender is one of the two ends (else Wire::poll panics)
ValidSender(w, sender) == sender = w.end1 \/ sender = w.end2

\* mutant: the message goes back to the end it came from
DestSender(w, sender) ==
    IF sender = w.end1 THEN w.end1 ELSE w.end2

\* the `dest` of Wire::poll, for a valid sender
Dest(w, sender) ==
    IF sender = w.end1 THEN w.end2 ELSE w.end1

\* mutant: the message is put at the head of `outgoing`
PushFront(q, out_msg) == <<out_msg>> \o q

\* VecDeque::push_back
PushBack(q, out_msg) == Append(q, out_msg)

RECURSIVE Enqueue(_, _, _, _)
\* the first loop of Wire::poll, from incoming[i] on: the wire left and
\* whether the loop panicked
Enqueue(w, time, incoming, i) ==
    IF i > Len(incoming) THEN [wire |-> w, panicked |-> FALSE]
    ELSE LET sender  == incoming[i][1]
             message == incoming[i][2]
         IN IF ~ValidSender(w, sender)
            THEN [wire |-> w, panicked |-> TRUE]
            ELSE Enqueue([w EXCEPT !.outgoing =
                             PushBack(@, [time |-> time + w.delay,
                                          dest |-> Dest(w, sender), msg |-> message])],
                         time, incoming, i + 1)

\* mutant: a message is sent out only when its time has passed
DueLate(out_time, time) == out_time < time

\* `*out_time <= time`
Due(out_time, time) == out_time <= time

RECURSIVE Drain(_, _)
\* the second loop of Wire::poll: what is returned and the queue left
Drain(q, time) ==
    IF q # << >> /\ Due(Head(q).time, time)
    THEN LET rest == Drain(Tail(q), time)
         IN [result |-> <<<<Head(q).dest, Head(q).msg>>>> \o rest.result,
             outgoing |-> rest.outgoing]
    ELSE [result |-> << >>, outgoing |-> q]

\* Wire::poll_at as a set: {} is None, {t} is Some(t)
WirePollAt(q) == IF q = << >> THEN {} ELSE {Head(q).time}

\* the messages handed to the wire so far
Handed == LET n == Len(wire_log) IN IF n = 0 THEN 0 ELSE wire_log[n].handed

\* the time of the last poll (the wire starts at time 0)
WireTime == LET n == Len(wire_log) IN IF n = 0 THEN 0 ELSE wire_log[n].time

\* wire.poll(time, incoming), the senders of incoming being `senders`
WirePoll(time, senders) ==
    LET incoming == [i \in 1..Len(senders) |-> <<senders[i], Handed + i>>]
        enq      == Enqueue(wire, time, incoming, 1)
        out      == Drain(enq.wire.outgoing, time)
    IN /\ ~aborted
       /\ Len(wire_log) < MaxWirePolls
       /\ time >= WireTime
       /\ IF enq.panicked
          THEN /\ aborted' = TRUE
               /\ wire' = enq.wire
               /\ wire_log' = Append(wire_log,
                      [time |-> time, incoming |-> incoming, handed |-> Handed + Len(incoming),
                       panicked |-> TRUE, result |-> << >>, left |-> enq.wire.outgoing])
          ELSE /\ aborted' = FALSE
               /\ wire' = [enq.wire EXCEPT !.outgoing = out.outgoing]
               /\ wire_log' = Append(wire_log,
                      [time |-> time, incoming |-> incoming, handed |-> Handed + Len(incoming),
                       panicked |-> FALSE, result |-> out.result, left |-> out.outgoing])
       /\ UNCHANGED <<channels, bufs, sent_log, chan_vars, kernel_vars, sim_vars, sched_vars>>

\* the state after Wire::new(end1, end2, delay), whose assert!(delay >= 0)
\* has passed
InitWire ==
    /\ \E end1, end2 \in WireEnds : \E delay \in 0..MaxDelay :
          wire = WireNew(end1, end2, delay)
    /\ wire_log = << >>
    /\ sim = NoSim
    /\ sim_log = << >>
    /\ sched = NoEvents
    /\ sched_log = << >>
    /\ aborted = FALSE
    /\ channels = << >>
    /\ bufs = << >>
    /\ sent_log = << >>
    /\ recv_log = << >>
    /\ move_log = << >>
    /\ events = {}
    /\ last_time = 0
    /\ machines = [i \in {} |-> Start]
    /\ pc = "cmd"
    /\ virt_end = 0
    /\ poll_log = << >>
    /\ conn_log = << >>
    /\ cmd_log = << >>

NextWire ==
    \E time \in 0..MaxWireTime : \E n \in 0..(MaxHanded - Handed) :
        \E senders \in [1..n -> Nodes] : WirePoll(time, senders)

SpecWire == InitWire /\ [][NextWire]_vars

\* ------------------------------------------------- run_sim_until alone
\* One call run_sim_until(nodes, end_time) of simulator.rs on the nodes
\* Nodes.  A node is any implementation of the trait Node: all the kernel
\* sees of it is its poll_at() ({} is None, {t} is Some(t)), and a poll
\* may return any messages and leave any poll_at().  A message is numbered
\* by its place among the messages sent.

\* the messages sent by the polls made so far
SimSent == LET n == Len(sim_log) IN IF n = 0 THEN 0 ELSE sim_log[n].sent

\* the test of earliest_poll_time: `i_time < early_time`
Earlier(i_time, early_time) == i_time < early_time

RECURSIVE EarliestFrom(_, _, _)
\* earliest_poll_time, the loop from node i on; {} is None, {<<i, t>>} is
\* Some((i, t))
EarliestFrom(poll_at, i, earliest) ==
    IF i \notin DOMAIN poll_at THEN earliest
    ELSE EarliestFrom(poll_at, i + 1,
            IF poll_at[i] = {} THEN earliest
            ELSE LET i_time == CHOOSE t \in poll_at[i] : TRUE
                 IN IF earliest = {} THEN {<<i, i_time>>}
                    ELSE LET early_time == (CHOOSE e \in earliest : TRUE)[2]
                         IN IF Earlier(i_time, early_time)
                            THEN {<<i, i_time>>} ELSE earliest)

EarliestPollTime(poll_at) == EarliestFrom(poll_at, 0, {})

\* mutant: the assertion is compiled out
PolledInPastUnchecked(poll_at, current_time) == FALSE

\* the assertion of machine_to_poll fails: "machines should not be polled
\* in the past"
PolledInPast(poll_at, current_time) ==
    \E i \in DOMAIN poll_at : \E t \in poll_at[i] : ~(t >= current_time)

\* mutant: mail does not come first
MachineToPollByTime(poll_at, mailboxes, current_time) ==
    EarliestPollTime(poll_at)

\* machine_to_poll, the assertion having passed: the first node with mail,
\* at the current time, else earliest_poll_time
MachineToPoll(poll_at, mailboxes, current_time) ==
    LET mail == {i \in DOMAIN mailboxes : mailboxes[i] # << >>}
    IN IF mail # {}
       THEN {<<CHOOSE i \in mail : \A j \in mail : i <= j, current_time>>}
       ELSE EarliestPollTime(poll_at)

\* mutant: the loop goes on one second beyond end_time
PastEndLate(time, end_time) == time > end_time + 1

\* the break of the loop: `time > end_time`
PastEnd(time, end_time) == time > end_time

RECURSIVE Deliver(_, _, _, _, _)
\* `for (destination, msg) in outgoing`: mailboxes[destination].push((i, msg)),
\* from the k-th message on; the n-th message sent by the polls is msg n
Deliver(mailboxes, i, dests, k, sent) ==
    IF k > Len(dests) THEN mailboxes
    ELSE Deliver([mailboxes EXCEPT ![dests[k]] = Append(@, <<i, sent + k>>)],
                 i, dests, k + 1, sent)

\* run_sim_until up to the loop: time is the earliest poll time, or the
\* call returns
SimEnter ==
    /\ sim.at = "called"
    /\ LET e == EarliestPollTime(sim.poll_at)
       IN sim' = IF e = {} THEN [sim EXCEPT !.at = "returned"]
                 ELSE [sim EXCEPT !.at = "loop", !.time = (CHOOSE x \in e : TRUE)[2]]
    /\ UNCHANGED <<sim_log, sched_vars>>
    /\ UNCHANGED <<channels, bufs, aborted, sent_log, chan_vars, kernel_vars, wire_vars>>

\* an iteration whose machine_to_poll panics on its assertion
SimAssert ==
    /\ sim.at = "loop"
    /\ PolledInPast(sim.poll_at, sim.time)
    /\ sim' = [sim EXCEPT !.at = "aborted"]
    /\ UNCHANGED <<sim_log, sched_vars>>
    /\ UNCHANGED <<channels, bufs, aborted, sent_log, chan_vars, kernel_vars, wire_vars>>

\* the loop is left: machine_to_poll returned None, or the node it chose
\* is to be polled after end_time
SimReturn ==
    /\ sim.at = "loop"
    /\ ~PolledInPast(sim.poll_at, sim.time)
    /\ LET m == MachineToPoll(sim.poll_at, sim.mailboxes, sim.time)
       IN IF m = {} THEN sim' = [sim EXCEPT !.at = "returned"]
          ELSE LET t == (CHOOSE x \in m : TRUE)[2]
               IN /\ PastEnd(t, sim.end_time)
                  /\ sim' = [sim EXCEPT !.at = "returned", !.time = t]
    /\ UNCHANGED <<sim_log, sched_vars>>
    /\ UNCHANGED <<channels, bufs, aborted, sent_log, chan_vars, kernel_vars, wire_vars>>

\* an iteration that polls the node chosen: the node is handed its mail,
\* sends a message to each of dests and from now on reports new_poll_at
SimPoll(dests, new_poll_at) ==
    /\ sim.at = "loop"
    /\ Len(sim_log) < MaxSimPolls
    /\ ~PolledInPast(sim.poll_at, sim.time)
    /\ \E m \in MachineToPoll(sim.poll_at, sim.mailboxes, sim.time) :
          LET i == m[1]
              t == m[2]
          IN /\ ~PastEnd(t, sim.end_time)
             /\ sim' = [sim EXCEPT
                   !.time = t,
                   !.poll_at[i] = new_poll_at,
                   !.mailboxes = Deliver([sim.mailboxes EXCEPT ![i] = << >>],
                                         i, dests, 1, SimSent)]
             /\ sim_log' = Append(sim_log,
                   [index |-> i, time |-> t, current |-> sim.time,
                    mailboxes |-> sim.mailboxes, poll_at |-> sim.poll_at,
                    incoming |-> sim.mailboxes[i], dests |-> dests,
                    sent |-> SimSent + Len(dests)])
    /\ UNCHANGED sched_vars
    /\ UNCHANGED <<channels, bufs, aborted, sent_log, chan_vars, kernel_vars, wire_vars>>

\* run_sim_until is called with any end_time on nodes reporting any poll
\* times
InitSim ==
    /\ events = {}
    /\ last_time = 0
    /\ machines = [i \in {} |-> Start]
    /\ channels = << >>
    /\ bufs = << >>
    /\ pc = "cmd"
    /\ virt_end = 0
    /\ aborted = FALSE
    /\ poll_log = << >>
    /\ conn_log = << >>
    /\ sent_log = << >>
    /\ cmd_log = << >>
    /\ recv_log = << >>
    /\ move_log = << >>
    /\ wire = NoWire
    /\ wire_log = << >>
    /\ \E end_time \in 0..MaxSimTime :
       \E poll_at \in [Nodes -> {{}} \cup {{t} : t \in 0..MaxSimTime}] :
          sim = [at |-> "called", end_time |-> end_time, time |-> 0,
                 mailboxes |-> [i \in Nodes |-> << >>], poll_at |-> poll_at]
    /\ sim_log = << >>
    /\ sched = NoEvents
    /\ sched_log = << >>

NextSim ==
    \/ SimEnter
    \/ SimAssert
    \/ SimReturn
    \/ \E n \in 0..(MaxSimMsgs - SimSent) : \E dests \in [1..n -> Nodes] :
       \E new_poll_at \in {{}} \cup {{t} : t \in 0..MaxSimTime} :
          SimPoll(dests, new_poll_at)

SpecSim == InitSim /\ [][NextSim]_vars

\* ---------------------------------------------------- a Scheduler alone
\* Any sequence of add_event and poll on one Scheduler of scheduled.rs.
\* An Event is compared by its time alone (Ord for Event, cmp of the
\* times, not reversed), and std's BinaryHeap is a max-heap: peek and pop
\* give an event that no other is greater than.

\* the events a Scheduler has been given in all
Added == Len(sched) + (IF sched_log = << >> THEN 0 ELSE sched_log[Len(sched_log)].run)

\* BinaryHeap::peek as a set of places in heap: the place of a greatest
\* event, {} when the heap is empty
Peek(heap) ==
    IF heap = << >> THEN {}
    ELSE {CHOOSE i \in 1..Len(heap) : \A j \in 1..Len(heap) : heap[j] <= heap[i]}

\* BinaryHeap::pop: the heap without the event peek shows
Pop(heap) ==
    LET i == CHOOSE x \in Peek(heap) : TRUE
    IN [k \in 1..(Len(heap) - 1) |-> IF k < i THEN heap[k] ELSE heap[k + 1]]

RECURSIVE RunEvents(_, _, _)
\* the loop of Scheduler::poll: while the event peeked has a time <= time
\* it is popped and its callback run.  Result: the heap left and the times
\* of the events run, in order.
RunEvents(heap, time, ran) ==
    IF Peek(heap) # {} /\ heap[CHOOSE x \in Peek(heap) : TRUE] <= time
    THEN RunEvents(Pop(heap), time, Append(ran, heap[CHOOSE x \in Peek(heap) : TRUE]))
    ELSE [heap |-> heap, ran |-> ran]

\* Scheduler::poll_at: the time of the event peeked; {} is None
SchedPollAt(heap) == {heap[i] : i \in Peek(heap)}

\* Scheduler::add_event
AddEvent(time) ==
    /\ Added < MaxEvents
    /\ sched' = Append(sched, time)
    /\ UNCHANGED <<sched_log, sim_vars>>
    /\ UNCHANGED <<channels, bufs, aborted, sent_log, chan_vars, kernel_vars, wire_vars>>

\* Scheduler::poll
SchedPoll(time) ==
    /\ Len(sched_log) < MaxSchedPolls
    /\ LET r == RunEvents(sched, time, << >>)
       IN /\ sched' = r.heap
          /\ sched_log' = Append(sched_log,
                [time |-> time, before |-> sched, ran |-> r.ran, after |-> r.heap,
                 poll_at |-> SchedPollAt(r.heap),
                 run |-> Added - Len(sched) + Len(r.ran)])
    /\ UNCHANGED sim_vars
    /\ UNCHANGED <<channels, bufs, aborted, sent_log, chan_vars, kernel_vars, wire_vars>>

NextSched ==
    \/ \E time \in 0..MaxSchedTime : AddEvent(time)
    \/ \E time \in 0..MaxSchedTime : SchedPoll(time)

\* a new Scheduler; everything else is as in Init
SpecSched == Init /\ [][NextSched]_vars

\* ------------------------------------------------------------ properties
\* the pairs of channels one of whose endpoints belongs to machine m
PairsOf(m) == {k \in 1..Len(channels) : m \in {channels[k][1].us, channels[k][1].them}}

\* C1: whatever the commands, a machine is never polled with a time below
\* that of one of its earlier polls, nor below the clock at which one of
\* the connections it had by then was added.
C1_MonotonicTime ==
    \A j \in 1..Len(poll_log) :
        /\ \A i \in 1..(j - 1) :
              poll_log[i].index = poll_log[j].index => poll_log[i].time <= poll_log[j].time
        /\ \A k \in PairsOf(poll_log[j].index) :
              conn_log[k].polls < j => conn_log[k].time <= poll_log[j].time

\* a machine polled at two different times, the later one after a
\* connection was added to it at a clock above 0
C1_Witness ==
    \E i, j \in 1..Len(poll_log) :
        /\ i < j /\ poll_log[i].index = poll_log[j].index
        /\ poll_log[i].time < poll_log[j].time
        /\ \E k \in PairsOf(poll_log[j].index) :
              conn_log[k].time > 0 /\ conn_log[k].polls < j

\* the clock after each transition: that of the last poll
ClockAfter(j) == IF j = 0 THEN 0 ELSE poll_log[j].time

\* C2: the event queue holds no entry earlier than the clock, and the
\* clock, which every step sets, never decreases from one step to the next.
C2_NoPastEvent ==
    /\ \A e \in events : e[1] >= last_time
    /\ last_time = ClockAfter(Len(poll_log))
    /\ \A j \in 1..Len(poll_log) : ClockAfter(j - 1) <= ClockAfter(j)

\* the clock has advanced and an entry at the clock's own time is queued
\* beside a later one
C2_Witness ==
    /\ last_time > 0
    /\ \E e, f \in events : e[1] = last_time /\ f[1] > last_time

\* the last of the first n sends that went into cell c
LastSend(c, n) ==
    sent_log[CHOOSE i \in 1..n :
                /\ sent_log[i].cell = c
                /\ \A j \in 1..n : sent_log[j].cell = c => j <= i]

\* the cells of heap that hold bytes not yet received
Pending(heap) == {c \in 1..Len(heap) : heap[c] # << >>}

\* C3: bytes sent to B in a poll at time T are received by B in a poll at
\* time T, before any poll at another time: while they are pending the
\* clock is T and B is queued at T, and every poll that found them pending
\* was at time T.
C3_NoExtraDelay ==
    /\ \A c \in Pending(bufs) :
          /\ LastSend(c, Len(sent_log)).time = last_time
          /\ <<last_time, LastSend(c, Len(sent_log)).to>> \in events
    /\ \A j \in 1..Len(poll_log) :
          \A c \in Pending(poll_log[j].bufs) :
              poll_log[j].time = LastSend(c, poll_log[j].sent).time

\* B has just been polled at the time another machine sent it a byte in
\* the poll before, and has taken it
C3_Witness ==
    /\ sent_log # << >> /\ Len(poll_log) > 1
    /\ LET s == sent_log[Len(sent_log)]
           p == poll_log[Len(poll_log)]
           q == poll_log[Len(poll_log) - 1]
       IN /\ s.from # s.to
          /\ p.index = s.to /\ p.time = s.time /\ p.bufs[s.cell] # << >>
          /\ q.index = s.from /\ q.time = s.time
          /\ Pending(bufs) = {}

\* C4: a step polls the machine of the smallest (time, id) entry of the
\* queue: the earliest time, and among the entries of that time the lowest
\* id; so the polls are in non-decreasing time order.
C4_SmallestFirst ==
    \A j \in 1..Len(poll_log) :
        LET p == poll_log[j]
        IN /\ <<p.time, p.index>> \in p.queue
           /\ \A f \in p.queue : p.time < f[1] \/ (p.time = f[1] /\ p.index <= f[2])
           /\ \A i \in 1..(j - 1) : poll_log[i].time <= p.time

\* a machine was polled while a machine of a higher id was queued for the
\* same time
C4_Witness ==
    /\ poll_log # << >>
    /\ LET p == poll_log[Len(poll_log)]
       IN \E f \in p.queue : f[1] = p.time /\ f[2] > p.index

\* the entries of sent_log that poll j made
SentBy(j) ==
    {sent_log[n] : n \in (poll_log[j].sent + 1) ..
                         (IF j < Len(poll_log) THEN poll_log[j + 1].sent ELSE Len(sent_log))}

\* C5 (as claimed): a poll earlier than at_time sends nothing on a
\* connection in WillSend(at_time, value) and leaves it in that state; the
\* connection becomes Waiting only in a poll that sent the byte.
C5_EarlyPollKeepsWillSend ==
    \A j \in 1..Len(poll_log) :
        LET p == poll_log[j]
        IN \A i \in 1..Len(p.before) :
              LET ci   == p.before[i].ci
                  cell == p.before[i].chan.outbox
              IN ci.tag = "WillSend" =>
                   /\ p.time < ci.when =>
                         /\ p.after[i].ci = ci
                         /\ \A s \in SentBy(j) : s.cell # cell
                   /\ p.after[i].ci.tag = "Waiting" =>
                         /\ p.time >= ci.when
                         /\ \E s \in SentBy(j) : s.cell = cell /\ s.num = ci.num

\* C6: a poll at `time` of a connection in Waiting whose inbox holds a
\* byte n leaves it in WillSend(time + v, v), v being n + 1 or 255 if that
\* is less; with an empty inbox it leaves it Waiting; either way it sends
\* nothing on the connection.
C6_WaitingPoll ==
    \A j \in 1..Len(poll_log) :
        LET p == poll_log[j]
        IN \A i \in 1..Len(p.before) :
              LET msg == p.bufs[p.before[i].chan.inbox]
                  v   == IF msg[1] + 1 > 255 THEN 255 ELSE msg[1] + 1
              IN p.before[i].ci.tag = "Waiting" =>
                   /\ msg # << >> =>
                         p.after[i].ci = [tag |-> "WillSend", when |-> p.time + v, num |-> v]
                   /\ msg = << >> => p.after[i].ci.tag = "Waiting"
                   /\ \A s \in SentBy(j) : s.cell # p.before[i].chan.outbox

\* one poll found a connection Waiting with the byte 255 in its inbox and
\* another connection Waiting with nothing in its inbox
C6_Witness ==
    \E j \in 1..Len(poll_log) :
        LET p == poll_log[j]
        IN \E i, i2 \in 1..Len(p.before) :
              /\ p.before[i].ci.tag = "Waiting"
              /\ p.bufs[p.before[i].chan.inbox] = <<255>>
              /\ p.after[i].ci.num = 255
              /\ p.before[i2].ci.tag = "Waiting"
              /\ p.bufs[p.before[i2].chan.inbox] = << >>

\* the lower and the higher id of the k-th connection
Lower(k) == IF channels[k][1].us < channels[k][1].them
            THEN channels[k][1].us ELSE channels[k][1].them

Higher(k) == IF channels[k][1].us < channels[k][1].them
             THEN channels[k][1].them ELSE channels[k][1].us

\* the state the k-th connect left the new connection of machine m in
NewCi(k, m) ==
    LET conns == conn_log[k].machines[m] IN conns[Len(conns)].ci

\* what C7 says of the connection states, for either order of the arguments
SeededByIds(k) ==
    /\ NewCi(k, Lower(k)) = [tag |-> "WillSend", when |-> conn_log[k].time + 1, num |-> 1]
    /\ NewCi(k, Higher(k)).tag = "Waiting"

\* C7 (as claimed): after connect of a < b at clock t, in either argument
\* order, a's new connection is WillSend(t + 1, 1), b's is Waiting and the
\* queue holds (t + 1, a).
C7_ConnectQueuesSeed ==
    \A k \in 1..Len(channels) :
        Lower(k) # Higher(k) =>
            /\ SeededByIds(k)
            /\ <<conn_log[k].time + 1, Lower(k)>> \in conn_log[k].queue

\* C7 (amended): ... and the queue holds (t + 1, a), or else holds (t, a),
\* a having an older connection that is to send at t, the clock itself.
C7_ConnectQueuesPollAt ==
    \A k \in 1..Len(channels) :
        Lower(k) # Higher(k) =>
            /\ SeededByIds(k)
            /\ \/ <<conn_log[k].time + 1, Lower(k)>> \in conn_log[k].queue
               \/ /\ <<conn_log[k].time, Lower(k)>> \in conn_log[k].queue
                  /\ <<conn_log[k].time + 1, Lower(k)>> \notin conn_log[k].queue
                  /\ LET conns == conn_log[k].machines[Lower(k)]
                     IN \E i \in 1..(Len(conns) - 1) :
                           /\ conns[i].ci.tag = "WillSend"
                           /\ conns[i].ci.when = conn_log[k].time

\* a connect at a clock above 0 whose first argument is the higher id and
\* whose lower machine was already due to send at the clock
C7_Witness ==
    \E k \in 1..Len(channels) :
        /\ channels[k][1].us > channels[k][1].them
        /\ conn_log[k].time > 0
        /\ <<conn_log[k].time, Lower(k)>> \in conn_log[k].queue
        /\ <<conn_log[k].time + 1, Lower(k)>> \notin conn_log[k].queue

\* the bounce scenario is under way: one connection, between two machines
Bouncing == Len(channels) = 1 /\ Lower(1) # Higher(1)

\* C8 (as claimed): the bytes sent on the connection, in order, start at 1
\* and each is the one before plus 1.
C8_AlwaysIncreasing ==
    Bouncing =>
        \A i \in 1..Len(sent_log) :
            sent_log[i].num = IF i = 1 THEN 1 ELSE sent_log[i - 1].num + 1

\* C8 (amended): ... start at 1 and each is the one before plus 1 until 255
\* has been sent, and 255 from then on; the two machines send in turn.
C8_IncreasingUntilSaturated ==
    Bouncing =>
        \A i \in 1..Len(sent_log) :
            /\ sent_log[i].num = IF i = 1 THEN 1
                                 ELSE IF sent_log[i - 1].num = 255 THEN 255
                                 ELSE sent_log[i - 1].num + 1
            /\ sent_log[i].from = IF i = 1 THEN Lower(1) ELSE sent_log[i - 1].to
            /\ sent_log[i].to # sent_log[i].from

\* 255 has been sent and another byte after it
C8_Witness ==
    /\ Bouncing
    /\ \E i \in 2..Len(sent_log) : sent_log[i - 1].num = 255

\* C9 (as claimed): the time between two successive sends of one machine
\* is the value of the later one.
C9_IntervalIsValue ==
    Bouncing =>
        \A i \in 3..Len(sent_log) :
            sent_log[i].from = sent_log[i - 2].from =>
                sent_log[i].time - sent_log[i - 2].time = sent_log[i].num

\* C9 (amended): the time between two successive sends of one machine is
\* the value of the later one plus the value the peer sent in between
\* (each send is made its own value after the send before it).
C9_IntervalIsSumOfValues ==
    Bouncing =>
        \A i \in 1..Len(sent_log) :
            /\ sent_log[i].time = (IF i = 1 THEN 0 ELSE sent_log[i - 1].time) + sent_log[i].num
            /\ i >= 3 =>
                  /\ sent_log[i].from = sent_log[i - 2].from
                  /\ sent_log[i - 1].from # sent_log[i].from
                  /\ sent_log[i].time - sent_log[i - 2].time
                        = sent_log[i].num + sent_log[i - 1].num

\* each machine has sent twice
C9_Witness ==
    /\ Bouncing
    /\ Len(sent_log) >= 4

\* C10: add, add, connect(0,1), step, step, step: the ids are 0 and 1;
\* after connect 0 is WillSend(1,1) and 1 Waiting; step 1 is at clock 1, 0
\* sends 1 and is Waiting, (1,1) is queued; step 2 polls 1 at 1 and leaves
\* it WillSend(3,2); step 3 is at clock 3 and 1 sends 2 to 0.
C10_Scenario ==
    /\ Ids = 0..(NumMachines - 1)
    /\ (Len(channels) = 1 /\ channels[1][1].us = 0 /\ channels[1][1].them = 1) =>
        LET n == Len(poll_log)
            willSend(t, v) == [tag |-> "WillSend", when |-> t, num |-> v]
        IN /\ n = 0 => /\ last_time = 0
                       /\ machines[0][1].ci = willSend(1, 1)
                       /\ machines[1][1].ci.tag = "Waiting"
           /\ n >= 1 => /\ poll_log[1].index = 0 /\ poll_log[1].time = 1
                        /\ Len(sent_log) >= 1
                        /\ sent_log[1] = [time |-> 1, from |-> 0, to |-> 1,
                                          cell |-> machines[0][1].chan.outbox, num |-> 1]
           /\ n = 1 => /\ last_time = 1
                       /\ machines[0][1].ci.tag = "Waiting"
                       /\ bufs[machines[1][1].chan.inbox] = <<1>>
                       /\ <<1, 1>> \in events
                       /\ Len(sent_log) = 1
           /\ n >= 2 => poll_log[2].index = 1 /\ poll_log[2].time = 1
           /\ n = 2 => /\ machines[1][1].ci = willSend(3, 2)
                       /\ Len(sent_log) = 1
           /\ n >= 3 => /\ poll_log[3].index = 1 /\ poll_log[3].time = 3
                        /\ Len(sent_log) >= 2
                        /\ sent_log[2] = [time |-> 3, from |-> 1, to |-> 0,
                                          cell |-> machines[1][1].chan.outbox, num |-> 2]
           /\ n = 3 => /\ last_time = 3
                       /\ bufs[machines[0][1].chan.inbox] = <<2>>
                       /\ Len(sent_log) = 2

\* the three steps of the scenario have been made
C10_Witness ==
    /\ Len(channels) = 1 /\ channels[1][1].us = 0 /\ channels[1][1].them = 1
    /\ Len(poll_log) = 3

\* machine state conns is dormant in heap: poll_at() is None and no
\* inbox of its connections holds a byte
Dormant(conns, heap) ==
    /\ PollAt(conns) = {}
    /\ \A i \in 1..Len(conns) : heap[conns[i].chan.inbox] = << >>

\* C11 (as claimed): no step polls a machine whose poll_at() is none and
\* which has no pending inbound bytes; no leftover queue entry causes such
\* a machine to be polled.
C11_DormantNotPolled ==
    \A j \in 1..Len(poll_log) : ~Dormant(poll_log[j].before, poll_log[j].bufs)

\* the queue entries of machine m later than the clock, and at the clock
LaterEntries(m) == {e \in events : e[2] = m /\ e[1] > last_time}

NowEntries(m) == {e \in events : e[2] = m /\ e[1] = last_time}

\* C12 (as claimed): each machine has at most one entry later than the
\* clock (its next wake) and at most one entry at the clock (has mail);
\* entries of one machine and time collapse into one.
C12_AtMostOneNextWake ==
    \A m \in Ids :
        /\ Cardinality(LaterEntries(m)) <= 1
        /\ Cardinality(NowEntries(m)) <= 1

\* C12 (amended): entries of one machine and time collapse into one, so a
\* machine has at most one entry at the clock, and no entry is earlier
\* than the clock; a machine with inbound bytes is queued at the clock and
\* a machine's poll_at() is always queued; but nothing removes the entry
\* of an earlier poll_at(), so a machine can have several later entries.
C12_QueueHoldsEveryWake ==
    /\ \A e \in events : e[2] \in Ids /\ e[1] >= last_time
    /\ \A m \in Ids :
          /\ Cardinality(NowEntries(m)) <= 1
          /\ \A t \in PollAt(machines[m]) : <<t, m>> \in events
          /\ (\E i \in 1..Len(machines[m]) : bufs[machines[m][i].chan.inbox] # << >>)
                => <<last_time, m>> \in events

\* a machine has two entries later than the clock, the earlier of them
\* its poll_at(), while another machine is queued at the clock for mail
C12_Witness ==
    \E m, n \in Ids :
        /\ Cardinality(LaterEntries(m)) = 2
        /\ \E t \in PollAt(machines[m]) : \A e \in LaterEntries(m) : t <= e[1]
        /\ n # m /\ NowEntries(n) # {}
        /\ \E i \in 1..Len(machines[n]) : bufs[machines[n][i].chan.inbox] # << >>

\* the last command was a step on an empty queue
EmptyStepDone == Len(cmd_log) = 1 /\ cmd_log[1].cmd = "step"

\* C13: a step on an empty event queue polls no machine and leaves the
\* clock, the queue, every machine's state and every channel buffer as
\* they were; the run goes on (it is not an error).
C13_EmptyStepIsNoOp ==
    EmptyStepDone =>
        /\ cmd_log[1].queue = {}
        /\ Len(poll_log) = cmd_log[1].polls
        /\ Len(sent_log) = cmd_log[1].sent
        /\ last_time = cmd_log[1].clock
        /\ events = cmd_log[1].queue
        /\ machines = cmd_log[1].machines
        /\ bufs = cmd_log[1].bufs
        /\ ~aborted /\ pc = "cmd"

\* a step was made on a queue that earlier steps had emptied, the clock
\* being above 0 and the machines connected
C13_Witness ==
    /\ EmptyStepDone
    /\ last_time > 0 /\ poll_log # << >>
    /\ \E m \in Ids : machines[m] # << >>

\* the last command was a realtime run, under way or returned
RealtimeRun == Len(cmd_log) = 1 /\ cmd_log[1].cmd = "realtime"

\* C14: a realtime run of `secs` started at clock c polls no machine at a
\* time greater than c + secs, and when it has returned the queue is
\* empty or its smallest time is greater than c + secs.
C14_RealtimeWindow ==
    RealtimeRun =>
        LET end == cmd_log[1].clock + cmd_log[1].secs
        IN /\ \A j \in (cmd_log[1].polls + 1)..Len(poll_log) : poll_log[j].time <= end
           /\ last_time <= end
           /\ cmd_log[1].done => (events = {} \/ First(events)[1] > end)
           /\ cmd_log[1].done <=> pc = "cmd"

\* a realtime run of a positive duration has polled at the very end of its
\* window and returned with a later event left in the queue
C14_Witness ==
    /\ RealtimeRun /\ cmd_log[1].done /\ cmd_log[1].secs > 0
    /\ Len(poll_log) > cmd_log[1].polls
    /\ poll_log[Len(poll_log)].time = cmd_log[1].clock + cmd_log[1].secs
    /\ events # {}

\* C15: every realtime run terminates: once the loop is entered, in any
\* reachable state and for any duration, it is left after finitely many
\* steps.
C15_RealtimeTerminates == (pc = "realtime") ~> (pc = "cmd")

\* a realtime run has returned after executing three events or more, two
\* of them at the same virtual time
C15_Witness ==
    /\ RealtimeRun /\ cmd_log[1].done
    /\ Len(poll_log) >= cmd_log[1].polls + 3
    /\ \E j \in (cmd_log[1].polls + 2)..Len(poll_log) : poll_log[j].time = poll_log[j - 1].time

RECURSIVE Concat(_)
\* the concatenation of a sequence of byte strings
Concat(ss) == IF ss = << >> THEN << >> ELSE Head(ss) \o Concat(Tail(ss))

\* all that the calls of recv have returned of the bytes `from` sent
ReceivedFrom(from) ==
    LET l == SelectSeq(recv_log, LAMBDA r : r.from = from)
    IN Concat([i \in 1..Len(l) |-> l[i].data])

\* the bytes of side `side` that are buffered: those in the peer's inbox,
\* then those in its own outbox if that is another buffer
Buffered(side) ==
    bufs[Peer(side).inbox]
        \o (IF End(side).outbox = Peer(side).inbox THEN << >> ELSE bufs[End(side).outbox])

\* C16: in each direction of a Channel, whatever the sends, moves and
\* recvs, what the receiver has got from recv() so far, followed by what
\* is still buffered, is exactly what the sender has sent, in order (so
\* what was received is a prefix of what was sent, nothing lost,
\* duplicated or reordered); each recv() returns all the inbox held and
\* leaves it empty.
C16_ReceivedIsPrefixOfSent ==
    /\ \A side \in 1..2 :
          BytesFrom(End(side).us) = ReceivedFrom(End(side).us) \o Buffered(side)
    /\ \A i \in 1..Len(recv_log) :
          recv_log[i].data = recv_log[i].had /\ recv_log[i].left = << >>

\* one side has sent two bytes and the other has received them in two
\* recvs, the first made with a byte still to come, while in the other
\* direction one recv has returned two bytes at once
C16_Witness ==
    \E side \in 1..2 :
        /\ ReceivedFrom(End(side).us) = <<1, 2>>
        /\ \E i \in 1..Len(recv_log) :
              recv_log[i].from = End(side).us /\ recv_log[i].data = <<1>>
        /\ \E i \in 1..Len(recv_log) :
              recv_log[i].from = Peer(side).us /\ recv_log[i].data = <<1, 2>>

\* C17 (as claimed): send() changes its own side's outbox only and never
\* the peer's inbox: the bytes of a side that are in the peer's inbox, or
\* that the peer's recv() has returned, are bytes a move of the Engine has
\* transferred.
C17_SendStaysInOutbox ==
    \A side \in 1..2 :
        Len(ReceivedFrom(End(side).us)) + Len(bufs[Peer(side).inbox]) <= move_log[side]

\* the messages poll j of the wire returned, and all that were returned so
\* far, in order
ReturnedBy(j) ==
    [k \in 1..Len(wire_log[j].result) |-> wire_log[j].result[k][2]]

Returned == Concat([j \in 1..Len(wire_log) |-> ReturnedBy(j)])

\* message m is among those poll j returned
ReturnedIn(m, j) == \E k \in 1..Len(wire_log[j].result) : wire_log[j].result[k][2] = m

\* C18: a Wire of delay d being polled at times that never decrease, a
\* message handed to it in a poll at time T is returned by no poll earlier
\* than T + d, is returned by the first poll at a time >= T + d, and as
\* long as it is the head of the queue poll_at() is T + d.
C18_DeliveredAtTimePlusDelay ==
    /\ \A j \in 2..Len(wire_log) : wire_log[j - 1].time <= wire_log[j].time
    /\ wire_log # << >> => wire.outgoing = wire_log[Len(wire_log)].left
    /\ \A i \in 1..Len(wire_log) :
          ~wire_log[i].panicked =>
             \A k \in 1..Len(wire_log[i].incoming) :
                LET m   == wire_log[i].incoming[k][2]
                    due == wire_log[i].time + wire.delay
                IN /\ \A j \in 1..Len(wire_log) :
                         ReturnedIn(m, j) => j >= i /\ wire_log[j].time >= due
                   /\ \A j \in i..Len(wire_log) :
                         ( /\ ~wire_log[j].panicked
                           /\ wire_log[j].time >= due
                           /\ \A j2 \in i..(j - 1) : wire_log[j2].time < due )
                         => ReturnedIn(m, j)
                   /\ \A j \in i..Len(wire_log) :
                         (wire_log[j].left # << >> /\ Head(wire_log[j].left).msg = m)
                         => WirePollAt(wire_log[j].left) = {due}

\* a message handed over at time T was kept by a second poll at T, after
\* which poll_at() was T + d, and returned by a third poll at T + d itself
C18_Witness ==
    /\ Len(wire_log) = 3 /\ wire.delay > 0
    /\ wire_log[1].incoming # << >> /\ ~wire_log[1].panicked
    /\ wire_log[2].time = wire_log[1].time
    /\ wire_log[2].result = << >>
    /\ WirePollAt(wire_log[2].left) = {wire_log[1].time + wire.delay}
    /\ wire_log[3].time = wire_log[1].time + wire.delay
    /\ ReturnedIn(wire_log[1].incoming[1][2], 3)

\* C19: a Wire returns the messages in the order it was handed them, those
\* of an earlier poll before those of a later one and those of one poll in
\* the order of its incoming list, whatever their delivery times and the
\* delay: the k-th message returned is the k-th message handed over.
C19_WireIsFifo ==
    \A k \in 1..Len(Returned) : Returned[k] = k

\* a wire of delay 0 was handed two messages, one from each end, in one
\* poll, which returned both (equal delivery times), after an earlier poll
\* that had returned another
C19_Witness ==
    /\ wire.delay = 0 /\ Len(wire_log) >= 2
    /\ Len(Returned) = 3
    /\ LET p == wire_log[Len(wire_log)]
       IN /\ Len(p.incoming) = 2 /\ Len(p.result) = 2
          /\ p.incoming[1][1] # p.incoming[2][1]

\* C20: a message from end1 is addressed to end2 and one from end2 to
\* end1 (the end that is not its sender, the two ends being different); a
\* message from any other sender makes the poll panic: the run is over,
\* the poll returns nothing, and that message is neither queued nor ever
\* returned.
C20_OtherEndOrAbort ==
    /\ aborted <=> (wire_log # << >> /\ wire_log[Len(wire_log)].panicked)
    /\ \A i \in 1..Len(wire_log) :
          /\ wire_log[i].panicked =>
                /\ i = Len(wire_log)
                /\ wire_log[i].result = << >>
                /\ \E k \in 1..Len(wire_log[i].incoming) :
                      wire_log[i].incoming[k][1] \notin {wire.end1, wire.end2}
          /\ \A k \in 1..Len(wire_log[i].incoming) :
                LET sender == wire_log[i].incoming[k][1]
                    m      == wire_log[i].incoming[k][2]
                    other  == IF sender = wire.end1 THEN wire.end2 ELSE wire.end1
                IN IF sender \in {wire.end1, wire.end2}
                   THEN /\ \A j \in 1..Len(wire_log) :
                              \A n \in 1..Len(wire_log[j].result) :
                                  wire_log[j].result[n][2] = m =>
                                      /\ wire_log[j].result[n][1] = other
                                      /\ wire.end1 # wire.end2 => wire_log[j].result[n][1] # sender
                        /\ \A n \in 1..Len(wire.outgoing) :
                              wire.outgoing[n].msg = m => wire.outgoing[n].dest = other
                   ELSE /\ wire_log[i].panicked
                        /\ \A n \in 1..Len(wire.outgoing) : wire.outgoing[n].msg # m
                        /\ \A j \in 1..Len(wire_log) : ~ReturnedIn(m, j)

\* a wire between two different nodes has returned to end1 a message of
\* end2, and then a poll whose incoming list held a message of end1
\* followed by one of a third node has panicked
C20_Witness ==
    /\ aborted /\ wire.end1 # wire.end2
    /\ \E j \in 1..Len(wire_log) :
          \E n \in 1..Len(wire_log[j].result) : wire_log[j].result[n][1] = wire.end1
    /\ LET p == wire_log[Len(wire_log)]
       IN /\ Len(p.incoming) = 2
          /\ p.incoming[1][1] = wire.end1
          /\ p.incoming[2][1] \notin {wire.end1, wire.end2}
          /\ Len(wire.outgoing) = 1 /\ wire.outgoing[1].dest = wire.end2

\* C21 (as claimed): a wake time beyond the range of Time is never stored
\* or queued, wrapped or clamped: the new connection of the lower id is
\* WillSend(t + 1, 1) for the clock t of its connect, every WillSend a poll
\* leaves is later than the poll, and no queue entry is in the past.
C21_OverflowAborts ==
    /\ \A k \in 1..Len(conn_log) :
          Lower(k) # Higher(k) => NewCi(k, Lower(k)).when = conn_log[k].time + 1
    /\ \A j \in 1..Len(poll_log) : \A i \in 1..Len(poll_log[j].after) :
          poll_log[j].after[i].ci.tag = "WillSend"
              => poll_log[j].after[i].ci.when > poll_log[j].time
    /\ \A e \in events : e[1] >= last_time

\* the last command was a connect naming an index that is not registered
BadConnectDone == Len(cmd_log) = 1 /\ cmd_log[1].cmd = "connect"

\* C22: a connect naming an unregistered index aborts the run and leaves the
\* channel list and the event queue as they were; every machine id in a
\* stored Channel or in a queued event is that of a registered machine.
C22_OnlyRegisteredIds ==
    /\ BadConnectDone =>
          /\ aborted
          /\ channels = cmd_log[1].channels
          /\ events = cmd_log[1].queue
          /\ ~(cmd_log[1].name1 \in Ids /\ cmd_log[1].name2 \in Ids)
    /\ \A k \in 1..Len(channels) : \A s \in 1..2 :
          channels[k][s].us \in Ids /\ channels[k][s].them \in Ids
    /\ \A e \in events : e[2] \in Ids

\* a run with a connection and a pending event was aborted by connect 0 2,
\* machine 2 not being registered; machine 0 had already been given its end
C22_Witness ==
    /\ BadConnectDone
    /\ cmd_log[1].name1 = 0 /\ cmd_log[1].name2 = 2
    /\ Ids = {0, 1}
    /\ Len(channels) = 1 /\ events # {}
    /\ Len(machines[0]) = 2 /\ machines[0][2].chan.them = 2

\* the last command was an add
AddDone == Len(cmd_log) = 1 /\ cmd_log[1].cmd = "add"

\* C23: add gives the new machine the number of machines registered before
\* it as id and changes nothing else: the ids and states of the machines
\* there were, the clock, the channels, the buffers and the polls made are
\* as before, and the queue gains an entry, for the new machine, exactly
\* when its poll_at() reports a time.
C23_AddIsFramed ==
    AddDone =>
        LET r == cmd_log[1] IN
        /\ r.index = Cardinality(DOMAIN r.machines)
        /\ r.index \notin DOMAIN r.machines
        /\ DOMAIN machines = DOMAIN r.machines \cup {r.index}
        /\ \A i \in DOMAIN r.machines : machines[i] = r.machines[i]
        /\ last_time = r.clock
        /\ channels = r.channels
        /\ bufs = r.bufs
        /\ Len(poll_log) = r.polls
        /\ events = r.queue \cup {<<t, r.index>> : t \in PollAt(machines[r.index])}
        /\ ~aborted /\ pc = "cmd"

\* a third machine was added after the first two had bounced a byte: the
\* clock has advanced, a connection exists and an event is queued
C23_Witness ==
    /\ AddDone
    /\ cmd_log[1].index = 2
    /\ last_time > 0 /\ Len(poll_log) >= 2
    /\ Len(channels) = 1 /\ events # {}
    /\ \E i \in {0, 1} : \E c \in 1..Len(machines[i]) : machines[i][c].ci.tag = "WillSend"
    /\ machines[2] = << >>

\* C24: the times run_sim_until passes to poll never decrease, and no node
\* is polled, nor does the call return, while a node reports a poll time
\* earlier than the current time: that run is aborted by the assertion.
C24_SimTimeMonotonic ==
    /\ \A j \in 1..Len(sim_log) :
          /\ sim_log[j].time >= sim_log[j].current
          /\ j > 1 => sim_log[j].time >= sim_log[j - 1].time
          /\ \A i \in Nodes : \A t \in sim_log[j].poll_at[i] : t >= sim_log[j].current
    /\ sim.at = "returned" => \A i \in Nodes : \A t \in sim.poll_at[i] : t >= sim.time
    /\ sim.at = "aborted" => \E i \in Nodes : \E t \in sim.poll_at[i] : t < sim.time

\* after a poll at time 0 and one at a later time, the node polled last
\* reported the time 0 and the run was aborted
C24_Witness ==
    /\ sim.at = "aborted"
    /\ Len(sim_log) = 2
    /\ sim_log[1].time = 0 /\ sim_log[2].time > 0
    /\ sim.poll_at[sim_log[2].index] = {0}
    /\ sim.time = sim_log[2].time

\* no mailbox holds a message / no node reports a poll time
NoMail == \A i \in Nodes : sim.mailboxes[i] = << >>

NoPollTime == \A i \in Nodes : sim.poll_at[i] = {}

\* C25: run_sim_until never polls a node with a time after end_time; when
\* it has returned, no node had mail and either no node reported a poll
\* time or the earliest one reported was after end_time; and if no node
\* reports a poll time at the start it returns without a poll.
C25_SimStopsAtEnd ==
    /\ \A j \in 1..Len(sim_log) : sim_log[j].time <= sim.end_time
    /\ sim.at = "returned" =>
          /\ NoMail
          /\ \/ NoPollTime
             \/ /\ sim.time > sim.end_time
                /\ \E i \in Nodes : sim.poll_at[i] = {sim.time}
                /\ \A i \in Nodes : \A t \in sim.poll_at[i] : t >= sim.time
    /\ Len(sim_log) >= 1 => \E i \in Nodes : sim_log[1].poll_at[i] # {}
    /\ (Len(sim_log) = 0 /\ NoPollTime) => sim.at \in {"called", "returned"}

\* two polls were made, the second at end_time, and the call returned
\* because the next poll time is after end_time
C25_Witness ==
    /\ sim.at = "returned"
    /\ Len(sim_log) = 2
    /\ sim_log[2].time = sim.end_time /\ sim_log[1].time < sim.end_time
    /\ sim.time > sim.end_time

\* the nodes with mail when the j-th poll was chosen
MailAt(j) == {i \in Nodes : sim_log[j].mailboxes[i] # << >>}

\* C26: a poll made while some mailbox is non-empty is of the lowest-index
\* node with mail, at the unchanged current time; a poll made while no
\* mailbox holds mail is of the node with the earliest poll_at(), the
\* lowest index among those with that time.
C26_MailFirstThenEarliest ==
    \A j \in 1..Len(sim_log) :
        LET r == sim_log[j] IN
        IF MailAt(j) # {}
        THEN /\ r.index \in MailAt(j)
             /\ \A i \in MailAt(j) : r.index <= i
             /\ r.time = r.current
        ELSE /\ r.poll_at[r.index] = {r.time}
             /\ \A i \in Nodes : \A t \in r.poll_at[i] :
                   r.time < t \/ (r.time = t /\ r.index <= i)

\* node 0 sent to 2 and to 1 and asked to be polled again at once; node 1
\* was polled next, then node 2; and the first poll was a tie of all three
\* nodes that node 0 won
C26_Witness ==
    /\ Len(sim_log) = 3
    /\ sim_log[1].index = 0 /\ sim_log[1].dests = <<2, 1>>
    /\ \A i \in Nodes : sim_log[1].poll_at[i] = {sim_log[1].time}
    /\ MailAt(2) = {1, 2} /\ sim_log[2].poll_at[0] = {sim_log[2].current}
    /\ sim_log[2].index = 1 /\ sim_log[3].index = 2

\* how many of the times in the sequence h satisfy time <= bound
RECURSIVE DueIn(_, _)
DueIn(h, bound) ==
    IF h = << >> THEN 0
    ELSE (IF Head(h) <= bound THEN 1 ELSE 0) + DueIn(Tail(h), bound)

\* C27 (as claimed): poll(time) runs every queued event with a time <= time
\* and leaves the later ones queued, and poll_at() is the time of the
\* earliest event queued, none when there is no event.
C27_SchedulerRunsDue ==
    /\ \A j \in 1..Len(sched_log) :
          LET r == sched_log[j] IN
          /\ \A k \in 1..Len(r.after) : r.after[k] > r.time
          /\ \A k \in 1..Len(r.ran) : r.ran[k] <= r.time
          /\ Len(r.ran) = DueIn(r.before, r.time)
          /\ Len(r.ran) + Len(r.after) = Len(r.before)
    /\ IF sched = << >> THEN SchedPollAt(sched) = {}
       ELSE \E t \in SchedPollAt(sched) : \A k \in 1..Len(sched) : t <= sched[k]

\* C28: no wake-up is lost: whenever the poll_at() of a machine m reports a
\* time w, the entry (w, m) is in the event queue.
C28_NoLostWakeUp ==
    \A m \in Ids : \A w \in PollAt(machines[m]) : <<w, m>> \in events

\* after a step whose poll received a byte and computed a wake time, two
\* machines report a poll time, the polled one the time just computed
C28_Witness ==
    /\ Len(poll_log) >= 2
    /\ LET p == poll_log[Len(poll_log)]
       IN /\ PollAt(p.after) # {}
          /\ PollAt(machines[p.index]) = PollAt(p.after)
          /\ \A t \in PollAt(p.after) : t > p.time
          /\ \E n \in Ids \ {p.index} : PollAt(machines[n]) # {}

\* the state of the connection that endpoint s of the k-th pair is to its
\* machine
CiOf(k, s) ==
    LET conns == machines[channels[k][s].us]
        i == CHOOSE x \in 1..Len(conns) : conns[x].chan = channels[k][s]
    IN conns[i].ci

\* the endpoints of the k-th connection that are in WillSend
Senders(k) == {s \in 1..2 : CiOf(k, s).tag = "WillSend"}

\* the bytes buffered on the k-th connection, in both directions
InFlight(k) == Len(bufs[channels[k][1].inbox]) + Len(bufs[channels[k][1].outbox])

\* C29: a connection carries at most one token: its two endpoints are never
\* both in WillSend, no byte is buffered on it while an endpoint is in
\* WillSend, and none of its buffers ever holds more than one byte; so no
\* poll that finds a connection in WillSend reads (and drops) a byte.
C29_AtMostOneToken ==
    /\ \A k \in 1..Len(channels) :
          /\ Cardinality(Senders(k)) <= 1
          /\ Senders(k) # {} => InFlight(k) = 0
          /\ Len(bufs[channels[k][1].inbox]) <= 1
          /\ Len(bufs[channels[k][1].outbox]) <= 1
    /\ \A j \in 1..Len(poll_log) : \A i \in 1..Len(poll_log[j].before) :
          poll_log[j].before[i].ci.tag = "WillSend"
              => poll_log[j].bufs[poll_log[j].before[i].chan.inbox] = << >>

\* a machine with two connections: the token of one is a byte in flight
\* to it, the token of the other is its peer's WillSend, after a poll that
\* found a connection in WillSend and sent its byte
C29_Witness ==
    /\ Len(channels) >= 2
    /\ \E k, l \in 1..Len(channels) :
          /\ k # l
          /\ InFlight(k) = 1 /\ Senders(k) = {}
          /\ Senders(l) # {} /\ InFlight(l) = 0
    /\ \E j \in 1..Len(poll_log) : \E i \in 1..Len(poll_log[j].before) :
          /\ poll_log[j].before[i].ci.tag = "WillSend"
          /\ poll_log[j].time >= poll_log[j].before[i].ci.when

\* C30 (as claimed): the bounce never stalls: every connection between two
\* different machines has an endpoint in WillSend or a byte in flight, and
\* once there is such a connection the event queue is never empty.
C30_BounceNeverStalls ==
    /\ \A k \in 1..Len(channels) :
          Lower(k) # Higher(k) => (Senders(k) # {} \/ InFlight(k) >= 1)
    /\ (\E k \in 1..Len(channels) : Lower(k) # Higher(k)) => events # {}

====
